---- MODULE Spec2Model ----
(***************************************************************************)
(* Euler's method for dy/dx = k*y (src/app.py): the integrator             *)
(* euler_method, the table formatter create_step_table and the part of     *)
(* main that validates the parameters and computes the final errors.       *)
(*                                                                         *)
(* Python floats are IEEE-754 binary floating point numbers.  The model    *)
(* keeps the arithmetic of that format (round to nearest, ties to even, a  *)
(* fixed number of significand bits, gradual underflow, overflow to        *)
(* infinity, NaN) in a reduced format: Precision significand bits, a       *)
(* smallest spacing of 2^-FracBits and a largest finite number MaxFloat.   *)
(* A finite float is held as the integer number of units of 2^-FracBits.   *)
(***************************************************************************)
EXTENDS Integers, Sequences, FiniteSets

(***************************************************************************)
(* The floating point format                                               *)
(***************************************************************************)
Precision == 3
FracBits == 2
ExpRange == 6
GuardBits == 6

RECURSIVE Pow(_, _)
Pow(b, n) == IF n = 0 THEN 1 ELSE b * Pow(b, n - 1)

Unit == Pow(2, FracBits)
MantLimit == Pow(2, Precision)
MaxFloat == (MantLimit - 1) * Pow(2, ExpRange)

PosInf == MaxFloat + 1
NegInf == -PosInf
NaN == MaxFloat + 2

IsNaN(a) == a = NaN
IsInf(a) == a = PosInf \/ a = NegInf
IsFinite(a) == ~IsNaN(a) /\ ~IsInf(a)

Abs(n) == IF n < 0 THEN -n ELSE n
Sign(n) == IF n < 0 THEN -1 ELSE 1

\* n/d rounded to the nearest integer, ties to the even one (n >= 0, d > 0)
RoundHalfEven(n, d) ==
    LET q == n \div d
        r == n % d
    IN  IF 2 * r < d THEN q
        ELSE IF 2 * r > d THEN q + 1
        ELSE IF q % 2 = 0 THEN q ELSE q + 1

\* the spacing of the floats around n/d: the least power of two u with
\* n/d < 2^Precision * u
RECURSIVE UlpFrom(_, _, _)
UlpFrom(n, d, u) == IF n < MantLimit * u * d THEN u ELSE UlpFrom(n, d, 2 * u)

\* the rational n/d units (d > 0) rounded to a float
Round(n, d) ==
    LET u == UlpFrom(Abs(n), d, 1)
        m == u * RoundHalfEven(Abs(n), d * u)
    IN  IF m > MaxFloat THEN Sign(n) * PosInf ELSE Sign(n) * m

IsFloat(v) == Abs(v) <= MaxFloat /\ Round(v, 1) = v

FromInt(n) == Round(n * Unit, 1)

FNeg(a) == IF IsNaN(a) THEN NaN ELSE -a

FAbs(a) == IF IsNaN(a) THEN NaN ELSE Abs(a)

FAdd(a, b) ==
    IF IsNaN(a) \/ IsNaN(b) THEN NaN
    ELSE IF IsInf(a) /\ IsInf(b) THEN (IF a = b THEN a ELSE NaN)
    ELSE IF IsInf(a) THEN a
    ELSE IF IsInf(b) THEN b
    ELSE Round(a + b, 1)

FSub(a, b) == FAdd(a, FNeg(b))

FMul(a, b) ==
    IF IsNaN(a) \/ IsNaN(b) THEN NaN
    ELSE IF IsInf(a) \/ IsInf(b)
         THEN (IF a = 0 \/ b = 0 THEN NaN ELSE Sign(a) * Sign(b) * PosInf)
    ELSE Round(a * b, Unit)

\* a / b for b # 0 (Python raises ZeroDivisionError for b = 0)
FDiv(a, b) ==
    IF IsNaN(a) \/ IsNaN(b) THEN NaN
    ELSE IF IsInf(a) THEN (IF IsInf(b) THEN NaN ELSE Sign(a) * Sign(b) * PosInf)
    ELSE IF IsInf(b) THEN 0
    ELSE Round(Sign(b) * a * Unit, Abs(b))

FLe(a, b) == ~IsNaN(a) /\ ~IsNaN(b) /\ a <= b
FNe(a, b) == IsNaN(a) \/ IsNaN(b) \/ a # b

\* the float nearest to the literal 100 of the relative error (line 167)
Hundred == FromInt(100)

(***************************************************************************)
(* math.exp: e^x by its power series, summed with GuardBits extra bits and *)
(* rounded to a float.  A finite argument whose result exceeds MaxFloat    *)
(* raises OverflowError; exp(inf) = inf, exp(-inf) = 0, exp(nan) = nan.    *)
(***************************************************************************)
ExpScale == Unit * Pow(2, GuardBits)
ExpCap == 2 * PosInf * Pow(2, GuardBits)

\* the sum of the terms (a/Unit)^j / j! in units of 1/ExpScale, for a >= 0;
\* the summation stops once the sum is past every finite float
RECURSIVE ExpSum(_, _, _, _)
ExpSum(a, j, term, sum) ==
    IF term = 0 \/ sum > ExpCap THEN sum
    ELSE LET t == (term * a) \div (Unit * j)
         IN  ExpSum(a, j + 1, t, sum + t)

ExpFinite(a) ==
    IF a >= 0 THEN Round(ExpSum(a, 1, ExpScale, ExpScale), Pow(2, GuardBits))
    ELSE Round(Unit * ExpScale, ExpSum(-a, 1, ExpScale, ExpScale))

ExpRaises(a) == IsFinite(a) /\ ExpFinite(a) = PosInf

Exp(a) ==
    IF IsNaN(a) THEN NaN
    ELSE IF a = PosInf THEN PosInf
    ELSE IF a = NegInf THEN 0
    ELSE ExpFinite(a)

(***************************************************************************)
(* f"{v:.Nf}": the decimal digits of v rounded to N places                 *)
(***************************************************************************)
XPlaces == 4
YPlaces == 6

FormatFixed(v, places) ==
    IF IsNaN(v) THEN [text |-> "nan", neg |-> FALSE, int |-> 0, frac |-> 0]
    ELSE IF IsInf(v) THEN [text |-> "inf", neg |-> v < 0, int |-> 0, frac |-> 0]
    ELSE LET scale == Pow(10, places)
             f == RoundHalfEven((Abs(v) % Unit) * scale, Unit)
             carry == IF f = scale THEN 1 ELSE 0
         IN  [text |-> "fixed", neg |-> v < 0,
              int |-> (Abs(v) \div Unit) + carry,
              frac |-> IF carry = 1 THEN 0 ELSE f]

(***************************************************************************)
(* Sequences with Python's indices 0 .. len-1                              *)
(***************************************************************************)
At(seq, idx) == seq[idx + 1]
Last(seq) == seq[Len(seq)]

(***************************************************************************)
(* The parameters main reads from its five number inputs                   *)
(***************************************************************************)
MaxK == 8
MaxX0 == 1
MaxY0 == 8
MaxXFinal == 16
MaxH == 4

KValues == {v \in -MaxK..MaxK : IsFloat(v)}
X0Values == {v \in -1..MaxX0 : IsFloat(v)} \cup {MantLimit}
Y0Values == {v \in -2..MaxY0 : IsFloat(v)}
XFinalValues == {v \in -1..MaxXFinal : IsFloat(v)}
HValues == {v \in -1..MaxH : IsFloat(v)}

VARIABLES
    k, x0, y0, x_final, h,          \* the parameters
    pc,                             \* the position in main / euler_method / create_step_table
    error,                          \* the message of st.error, or the exception raised
    n_steps, i,                     \* euler_method: the step count and the loop index
    x_values, y_euler, y_analytical,
    x_current, y_current,
    final_error, relative_error,    \* main: the summary metrics
    steps_data                      \* create_step_table: the records so far

params == <<k, x0, y0, x_final, h>>
euler == <<n_steps, i, x_values, y_euler, y_analytical, x_current, y_current>>
metrics == <<final_error, relative_error>>
vars == <<params, pc, error, euler, metrics, steps_data>>

Init ==
    /\ k \in KValues
    /\ x0 \in X0Values
    /\ y0 \in Y0Values
    /\ x_final \in XFinalValues
    /\ h \in HValues
    /\ pc = "main"
    /\ error = ""
    /\ n_steps = 0
    /\ i = 0
    /\ x_values = <<>>
    /\ y_euler = <<>>
    /\ y_analytical = <<>>
    /\ x_current = 0
    /\ y_current = 0
    /\ final_error = 0
    /\ relative_error = 0
    /\ steps_data = <<>>

(***************************************************************************)
(* main: validation                                                        *)
(***************************************************************************)
\* faulty variant: the comparison made strict
RangeRejectedStrict(xf, xi) == ~IsNaN(xf) /\ ~IsNaN(xi) /\ xf < xi

RangeRejected(xf, xi) == FLe(xf, xi)

StepRejected(step) == FLe(step, 0)

RejectRange ==
    /\ pc = "main"
    /\ RangeRejected(x_final, x0)
    /\ error' = "Final x value must be greater than initial x value"
    /\ pc' = "rejected"
    /\ UNCHANGED <<params, euler, metrics, steps_data>>

RejectStep ==
    /\ pc = "main"
    /\ ~RangeRejected(x_final, x0)
    /\ StepRejected(h)
    /\ error' = "Step size must be positive"
    /\ pc' = "rejected"
    /\ UNCHANGED <<params, euler, metrics, steps_data>>

CallEuler ==
    /\ pc = "main"
    /\ ~RangeRejected(x_final, x0)
    /\ ~StepRejected(h)
    /\ pc' = "euler"
    /\ UNCHANGED <<params, error, euler, metrics, steps_data>>

(***************************************************************************)
(* euler_method                                                            *)
(***************************************************************************)
\* int(q): truncation toward zero of a finite float
IntTrunc(q) == Sign(q) * (Abs(q) \div Unit)

Quotient(xi, xf, step) == FDiv(FSub(xf, xi), step)

NSteps(xi, xf, step) == IntTrunc(Quotient(xi, xf, step))

NStepsError(xi, xf, step) ==
    IF step = 0 THEN "ZeroDivisionError"
    ELSE IF IsInf(Quotient(xi, xf, step)) THEN "OverflowError"
    ELSE IF IsNaN(Quotient(xi, xf, step)) THEN "ValueError"
    ELSE ""

\* faulty variant: the lists start empty
InitialSequenceEmpty(v) == <<>>

InitialSequence(v) == <<v>>

\* faulty variant: the step size left out of the increment
YNextNoStep(y, step, rate) == FAdd(y, FMul(rate, y))

\* faulty variant: the increment subtracted
YNextMinus(y, step, rate) == FSub(y, FMul(FMul(step, rate), y))

YNext(y, step, rate) == FAdd(y, FMul(FMul(step, rate), y))

XNext(x, step) == FAdd(x, step)

\* faulty variant: the parentheses of k * (x - x0) left out
ExpArgumentFlat(rate, x, xi) == FSub(FMul(rate, x), xi)

ExpArgument(rate, x, xi) == FMul(rate, FSub(x, xi))

Analytical(yi, rate, x, xi) == FMul(yi, Exp(ExpArgument(rate, x, xi)))

\* faulty variant: the last entry overwritten instead of a new one appended
StoreOverwrite(seq, v) == IF seq = <<>> THEN <<v>> ELSE [seq EXCEPT ![Len(seq)] = v]

Store(seq, v) == Append(seq, v)

LoopContinues(idx, n) == idx < n

EulerInit ==
    /\ pc = "euler"
    /\ IF NStepsError(x0, x_final, h) # ""
       THEN /\ error' = NStepsError(x0, x_final, h)
            /\ pc' = "raised"
            /\ UNCHANGED euler
       ELSE /\ n_steps' = NSteps(x0, x_final, h)
            /\ x_values' = InitialSequence(x0)
            /\ y_euler' = InitialSequence(y0)
            /\ y_analytical' = InitialSequence(y0)
            /\ x_current' = x0
            /\ y_current' = y0
            /\ i' = 0
            /\ pc' = "loop"
            /\ UNCHANGED error
    /\ UNCHANGED <<params, metrics, steps_data>>

EulerStep ==
    /\ pc = "loop"
    /\ LoopContinues(i, n_steps)
    /\ LET y_next == YNext(y_current, h, k)
           x_next == XNext(x_current, h)
       IN  /\ x_values' = Store(x_values, x_next)
           /\ y_euler' = Store(y_euler, y_next)
           /\ IF ExpRaises(ExpArgument(k, x_next, x0))
              THEN /\ error' = "OverflowError"
                   /\ pc' = "raised"
                   /\ UNCHANGED <<y_analytical, x_current, y_current, i>>
              ELSE /\ y_analytical' = Store(y_analytical, Analytical(y0, k, x_next, x0))
                   /\ x_current' = x_next
                   /\ y_current' = y_next
                   /\ i' = i + 1
                   /\ UNCHANGED <<pc, error>>
    /\ UNCHANGED <<params, n_steps, metrics, steps_data>>

EulerReturn ==
    /\ pc = "loop"
    /\ ~LoopContinues(i, n_steps)
    /\ pc' = "metrics"
    /\ UNCHANGED <<params, error, euler, metrics, steps_data>>

(***************************************************************************)
(* main: the final absolute and relative error                             *)
(***************************************************************************)
FinalError(ye, ya) == FAbs(FSub(Last(ye), Last(ya)))

\* faulty variant: the guard of the division left out
DividesAlways(ya) == TRUE

DividesByAnalytical(ya) == FNe(Last(ya), 0)

MainMetrics ==
    /\ pc = "metrics"
    /\ final_error' = FinalError(y_euler, y_analytical)
    /\ IF DividesByAnalytical(y_analytical)
       THEN IF FAbs(Last(y_analytical)) = 0
            THEN /\ error' = "ZeroDivisionError"
                 /\ pc' = "raised"
                 /\ UNCHANGED relative_error
            ELSE /\ relative_error' =
                        FMul(FDiv(FinalError(y_euler, y_analytical),
                                  FAbs(Last(y_analytical))), Hundred)
                 /\ pc' = "table"
                 /\ UNCHANGED error
       ELSE /\ relative_error' = 0
            /\ pc' = "table"
            /\ UNCHANGED error
    /\ UNCHANGED <<params, euler, steps_data>>

(***************************************************************************)
(* create_step_table                                                       *)
(***************************************************************************)
\* faulty variant: the derivative of every record taken at its own index
DerivativeIndexCurrent(idx) == idx

DerivativeIndex(idx) == IF idx = 0 THEN idx ELSE idx - 1

Derivative(idx, ye, rate) == FMul(rate, At(ye, DerivativeIndex(idx)))

NextY(idx, ye, rate, step) ==
    IF idx = 0 THEN <<"Initial value">>
    ELSE <<FormatFixed(At(ye, idx - 1), YPlaces), "+", step, "x",
           FormatFixed(Derivative(idx, ye, rate), YPlaces)>>

StepRecord(idx, xs, ye, ya, rate, step) ==
    [Step |-> idx,
     x |-> FormatFixed(At(xs, idx), XPlaces),
     yEuler |-> FormatFixed(At(ye, idx), YPlaces),
     yAnalytical |-> FormatFixed(At(ya, idx), YPlaces),
     derivative |-> FormatFixed(Derivative(idx, ye, rate), YPlaces),
     Error |-> FormatFixed(FAbs(FSub(At(ye, idx), At(ya, idx))), YPlaces),
     NextY |-> NextY(idx, ye, rate, step)]

TableRow ==
    /\ pc = "table"
    /\ Len(steps_data) < Len(x_values)
    /\ steps_data' = Append(steps_data,
            StepRecord(Len(steps_data), x_values, y_euler, y_analytical, k, h))
    /\ UNCHANGED <<params, pc, error, euler, metrics>>

TableReturn ==
    /\ pc = "table"
    /\ ~(Len(steps_data) < Len(x_values))
    /\ pc' = "done"
    /\ UNCHANGED <<params, error, euler, metrics, steps_data>>

Next ==
    \/ RejectRange
    \/ RejectStep
    \/ CallEuler
    \/ EulerInit
    \/ EulerStep
    \/ EulerReturn
    \/ MainMetrics
    \/ TableRow
    \/ TableReturn

Spec == Init /\ [][Next]_vars

(***************************************************************************)
(* Positions                                                               *)
(***************************************************************************)
\* euler_method has returned its three lists to main (line 151)
Returned == pc \in {"metrics", "table", "done"}

\* euler_method is between two iterations of its loop, or has returned
Built == pc = "loop" \/ Returned

Indices(seq) == 0 .. (Len(seq) - 1)

(***************************************************************************)
(* C1: for every valid input euler_method returns three lists of           *)
(* floor((x_final - x0) / h) + 1 entries each, after exactly that many     *)
(* loop iterations.                                                        *)
(***************************************************************************)
C1_ReturnsLengths ==
    /\ pc # "raised"
    /\ Returned =>
        /\ i = NSteps(x0, x_final, h)
        /\ Len(x_values) = NSteps(x0, x_final, h) + 1
        /\ Len(y_euler) = NSteps(x0, x_final, h) + 1
        /\ Len(y_analytical) = NSteps(x0, x_final, h) + 1

(***************************************************************************)
(* C3: x_values[0] = x0 and y_euler[0] = y_analytical[0] = y0, between any *)
(* two iterations of the loop and at return.                               *)
(***************************************************************************)
C3_InitialPoint ==
    Built =>
        /\ Len(x_values) >= 1 /\ At(x_values, 0) = x0
        /\ Len(y_euler) >= 1 /\ At(y_euler, 0) = y0
        /\ Len(y_analytical) >= 1 /\ At(y_analytical, 0) = y0

C3_Witness ==
    /\ pc = "loop" /\ i >= 2
    /\ At(x_values, 0) = x0 /\ At(x_values, 2) # x0
    /\ At(y_euler, 0) = y0 /\ At(y_euler, 2) # y0
    /\ At(y_analytical, 0) = y0 /\ At(y_analytical, 2) # y0

(***************************************************************************)
(* C4: main calls euler_method and create_step_table only with             *)
(* x_final > x0 and h > 0; with x_final <= x0 or h <= 0 it shows an error  *)
(* and returns with nothing computed.                                      *)
(***************************************************************************)
C4_Validation ==
    /\ (pc \notin {"main", "rejected"}) => (x_final > x0 /\ h > 0)
    /\ (x_final <= x0 \/ h <= 0) => pc \in {"main", "rejected"}
    /\ pc = "rejected" =>
        /\ error \in {"Final x value must be greater than initial x value",
                      "Step size must be positive"}
        /\ x_values = <<>> /\ y_euler = <<>> /\ y_analytical = <<>>
        /\ steps_data = <<>>

C4_Witness ==
    /\ pc = "rejected"
    /\ x_final = x0
    /\ h > 0
    /\ error = "Final x value must be greater than initial x value"

(***************************************************************************)
(* C5: with k = 0 every entry of y_euler and of y_analytical is y0.        *)
(***************************************************************************)
C5_ZeroRate ==
    (k = 0 /\ Built) =>
        /\ \A idx \in Indices(y_euler) : At(y_euler, idx) = y0
        /\ \A idx \in Indices(y_analytical) : At(y_analytical, idx) = y0

C5_Witness ==
    /\ k = 0 /\ y0 # 0 /\ pc = "done"
    /\ Len(y_euler) >= 4
    /\ Last(y_euler) = y0 /\ Last(y_analytical) = y0

(***************************************************************************)
(* C6: with k > 0 and y0 > 0 the lists y_euler and y_analytical are        *)
(* non-decreasing.                                                         *)
(***************************************************************************)
NonDecreasing(seq) ==
    \A idx \in Indices(seq) :
        idx + 1 \in Indices(seq) => FLe(At(seq, idx), At(seq, idx + 1))

C6_Monotone ==
    (k > 0 /\ y0 > 0 /\ Built) =>
        NonDecreasing(y_euler) /\ NonDecreasing(y_analytical)

C6_Witness ==
    /\ k > 0 /\ y0 > 0 /\ pc = "done"
    /\ Len(y_euler) >= 4
    /\ At(y_euler, 1) < At(y_euler, 2) /\ At(y_euler, 2) < At(y_euler, 3)
    /\ At(y_analytical, 1) < At(y_analytical, 2)

(***************************************************************************)
(* C2 as claimed: the two recurrences hold at every index, and             *)
(* x_values[i] is exactly x0 + i*h for every i.                            *)
(***************************************************************************)
Recurrences ==
    \A idx \in Indices(x_values) :
        idx + 1 \in Indices(x_values) =>
            /\ At(y_euler, idx + 1) =
                   FAdd(At(y_euler, idx), FMul(FMul(h, k), At(y_euler, idx)))
            /\ At(x_values, idx + 1) = FAdd(At(x_values, idx), h)

C2_ExactGrid ==
    Returned =>
        /\ Recurrences
        /\ \A idx \in Indices(x_values) : At(x_values, idx) = x0 + idx * h

(***************************************************************************)
(* C2 as amended: the two recurrences hold at every index in the floating  *)
(* point arithmetic of the code; x_values[i] is x0 + i*h up to the         *)
(* rounding of the i additions (at most half a unit in the last place      *)
(* each), and exactly x0 + i*h when every partial sum x0 + j*h, j <= i, is *)
(* a float; with x0 = 0, x_final = 1 and h = 1/2 the result has n = 2,     *)
(* x = [0, 1/2, 1] and y_euler = [y0, y1, y2] with y(j+1) = yj + h*k*yj.   *)
(***************************************************************************)
Max(a, b) == IF a >= b THEN a ELSE b

Ulp(v) == UlpFrom(Abs(v), 1, 1)

C2_Recurrence ==
    Returned =>
        /\ Recurrences
        /\ \A idx \in Indices(x_values) :
            /\ 2 * Abs(At(x_values, idx) - (x0 + idx * h))
                   <= idx * Ulp(Max(Abs(x0), Abs(At(x_values, idx))))
            /\ (\A j \in 0 .. idx : IsFloat(x0 + j * h))
                   => At(x_values, idx) = x0 + idx * h
        /\ (x0 = 0 /\ x_final = Unit /\ 2 * h = Unit) =>
            /\ n_steps = 2
            /\ x_values = <<0, h, Unit>>
            /\ y_euler = <<y0, FAdd(y0, FMul(FMul(h, k), y0)),
                           FAdd(FAdd(y0, FMul(FMul(h, k), y0)),
                                FMul(FMul(h, k), FAdd(y0, FMul(FMul(h, k), y0))))>>

C2_Witness ==
    /\ pc = "done"
    /\ Len(x_values) >= 3
    /\ Recurrences
    /\ At(x_values, 1) = x0 + h
    /\ Last(x_values) # x0 + n_steps * h
    /\ At(y_euler, 1) # y0

(***************************************************************************)
(* C7: create_step_table returns one record per index, in index order,     *)
(* with Step = i; record 0 has the derivative k*y_euler[0] and "Next y"    *)
(* "Initial value"; record i > 0 has the derivative k*y_euler[i-1] and the *)
(* error |y_euler[i] - y_analytical[i]|.                                   *)
(***************************************************************************)
C7_StepTable ==
    pc = "done" =>
        /\ Len(steps_data) = Len(x_values)
        /\ \A idx \in Indices(steps_data) :
            LET rec == At(steps_data, idx) IN
            /\ rec.Step = idx
            /\ rec.Error = FormatFixed(FAbs(FSub(At(y_euler, idx),
                                                 At(y_analytical, idx))), YPlaces)
            /\ idx = 0 =>
                /\ rec.derivative = FormatFixed(FMul(k, At(y_euler, 0)), YPlaces)
                /\ rec.NextY = <<"Initial value">>
            /\ idx > 0 =>
                /\ rec.derivative = FormatFixed(FMul(k, At(y_euler, idx - 1)), YPlaces)
                /\ rec.NextY # <<"Initial value">>

C7_Witness ==
    /\ pc = "done"
    /\ Len(steps_data) >= 3
    /\ At(steps_data, 2).derivative = FormatFixed(FMul(k, At(y_euler, 1)), YPlaces)
    /\ At(steps_data, 2).derivative # FormatFixed(FMul(k, At(y_euler, 2)), YPlaces)
    /\ At(steps_data, 0).NextY = <<"Initial value">>

(***************************************************************************)
(* C8: the final relative error is 0 when y_analytical[-1] is 0 and        *)
(* |y_euler[-1] - y_analytical[-1]| / |y_analytical[-1]| * 100 otherwise;  *)
(* no division by zero is evaluated.                                       *)
(***************************************************************************)
C8_RelativeError ==
    /\ error # "ZeroDivisionError"
    /\ pc \in {"table", "done"} =>
        /\ final_error = FAbs(FSub(Last(y_euler), Last(y_analytical)))
        /\ Last(y_analytical) = 0 => relative_error = 0
        /\ Last(y_analytical) # 0 =>
               relative_error =
                   FMul(FDiv(FAbs(FSub(Last(y_euler), Last(y_analytical))),
                             FAbs(Last(y_analytical))), Hundred)

C8_Witness ==
    /\ pc = "table"
    /\ Last(y_analytical) = 0
    /\ Last(y_euler) # 0
    /\ relative_error = 0
    /\ final_error > 0

(***************************************************************************)
(* C9: in euler_method the three lists are append-only and in lock-step:   *)
(* between iterations each has i + 1 entries, an iteration appends one     *)
(* entry to each, and no step changes an entry already appended.           *)
(***************************************************************************)
IsPrefix(s, t) == Len(s) <= Len(t) /\ \A j \in 1 .. Len(s) : t[j] = s[j]

C9_AppendOnly ==
    [][/\ IsPrefix(x_values, x_values')
       /\ IsPrefix(y_euler, y_euler')
       /\ IsPrefix(y_analytical, y_analytical')
       /\ (pc = "loop" /\ pc' = "loop") =>
            /\ i' = i + 1
            /\ Len(x_values') = Len(x_values) + 1
            /\ Len(y_euler') = Len(y_euler) + 1
            /\ Len(y_analytical') = Len(y_analytical) + 1
       /\ (pc' = "loop" \/ Returned') =>
            /\ Len(x_values') = i' + 1
            /\ Len(y_euler') = i' + 1
            /\ Len(y_analytical') = i' + 1]_vars

C9_Witness ==
    /\ pc = "loop" /\ i = 3
    /\ Len(x_values) = 4 /\ Len(y_euler) = 4 /\ Len(y_analytical) = 4
    /\ At(x_values, 3) # At(x_values, 2)

(***************************************************************************)
(* C10: the last grid point never overshoots: x_values[n] <= x_final and   *)
(* x_final - x_values[n] < h, with x_values[n] = x_final exactly when      *)
(* x_final - x0 is an exact multiple of h.                                 *)
(***************************************************************************)
C10_NoOvershoot ==
    Returned =>
        /\ Last(x_values) <= x_final
        /\ x_final - Last(x_values) < h
        /\ (Last(x_values) = x_final) <=> ((x_final - x0) % h = 0)

====
